---- MODULE Spec2Model ----
(***************************************************************************)
(* Credit-card valuation and ranking engine (utils/calculator.py) over the *)
(* card catalog (data/credit_cards.py).                                    *)
(*                                                                         *)
(* Numbers.  Python ints are modelled as integers in whole rupees.  Python *)
(* floats (reward rates, point values, rewards, milestone value, lounge    *)
(* value, gross benefits, net value) are modelled as exact fixed-point     *)
(* integers counting 1/10000 of the unit: a rate of 0.0125 is 125, a value *)
(* of Rs 18000.0 is 180000000.  Every rate and point value of the catalog  *)
(* is a multiple of 1/10000, so products and sums are exact.               *)
(***************************************************************************)
EXTENDS Integers, Sequences, FiniteSets, TLC

\* Fixed-point scale of the modelled floats: one unit is 1/10000.
FloatScale ==
    100 * 100

\* int -> float conversion (an int operand promoted in a float expression).
ToFloat(n) ==
    n * FloatScale

\* Longest card list drawn for a ranking request.
MaxCards ==
    3

(***************************************************************************)
(* Dictionaries.  A dict with string keys is a function; dict.get(k, d)    *)
(* falls back to d when k is not a key.                                    *)
(***************************************************************************)
EmptyDict ==
    [k \in {} |-> 0]

DictGet(d, k, default) ==
    IF k \in DOMAIN d THEN d[k] ELSE default

(***************************************************************************)
(* Milestone keys.  milestone_benefits is a dict in insertion order, kept  *)
(* as a sequence of items.  A key is an int or a str of decimal digits.    *)
(***************************************************************************)
IntKey(n) ==
    [is_str |-> FALSE, int |-> n, digits |-> <<>>]

StrKey(ds) ==
    [is_str |-> TRUE, int |-> 0, digits |-> ds]

Milestone(key, points) ==
    [threshold |-> key, points |-> points]

\* POINT_VALUATION: Rs per point, by bank.
POINT_VALUATION ==
    [HDFC |-> 5000, SBI |-> 2500, Axis |-> 5000, ICICI |-> 2500,
     Amex |-> 5000, RBL |-> 2500, IndusInd |-> 5000]

\* Point value of a bank that POINT_VALUATION does not list (0.25).
DEFAULT_POINT_VALUE ==
    2500

\* The four multiplier keys of a shipped card.
Multipliers(travel, dining, online, utilities) ==
    [travel |-> travel, dining |-> dining, online |-> online,
     utilities |-> utilities]

HDFCInfinia ==
    [card_name |-> "HDFC Infinia", bank |-> "HDFC", annual_fee |-> 12500,
     fee_waiver_threshold |-> 1000000, min_salary_req |-> 300000,
     base_reward_rate |-> 330,
     category_multipliers |-> Multipliers(500, 330, 330, 330),
     lounge_access |-> "Unlimited domestic & international",
     lounge_visits_per_quarter |-> 999,
     milestone_benefits |-> << Milestone(IntKey(800000), 10000),
                               Milestone(IntKey(1500000), 25000) >>,
     fuel_surcharge_waiver |-> TRUE, card_type |-> "Super Premium",
     joining_fee |-> 12500, welcome_benefit |-> 12500,
     description |-> "India's most premium card with unmatched rewards and luxury benefits"]

HDFCRegaliaGold ==
    [card_name |-> "HDFC Regalia Gold", bank |-> "HDFC", annual_fee |-> 2500,
     fee_waiver_threshold |-> 300000, min_salary_req |-> 60000,
     base_reward_rate |-> 200,
     category_multipliers |-> Multipliers(400, 200, 200, 200),
     lounge_access |-> "8 per year (domestic & international)",
     lounge_visits_per_quarter |-> 2,
     milestone_benefits |-> << Milestone(IntKey(500000), 5000) >>,
     fuel_surcharge_waiver |-> TRUE, card_type |-> "Premium",
     joining_fee |-> 2500, welcome_benefit |-> 2500,
     description |-> "Great all-rounder for mid-income professionals"]

HDFCDinersBlack ==
    [card_name |-> "HDFC Diners Black", bank |-> "HDFC", annual_fee |-> 10000,
     fee_waiver_threshold |-> 500000, min_salary_req |-> 175000,
     base_reward_rate |-> 330,
     category_multipliers |-> Multipliers(1000, 1000, 330, 330),
     lounge_access |-> "Unlimited via Diners Club network",
     lounge_visits_per_quarter |-> 999,
     milestone_benefits |-> << Milestone(IntKey(400000), 10000),
                               Milestone(IntKey(800000), 25000) >>,
     fuel_surcharge_waiver |-> TRUE, card_type |-> "Super Premium",
     joining_fee |-> 10000, welcome_benefit |-> 10000,
     description |-> "Best for dining and travel with 10x rewards on SmartBuy"]

SBICashback ==
    [card_name |-> "SBI Cashback Card", bank |-> "SBI", annual_fee |-> 999,
     fee_waiver_threshold |-> 200000, min_salary_req |-> 30000,
     base_reward_rate |-> 100,
     category_multipliers |-> Multipliers(100, 100, 500, 100),
     lounge_access |-> "4 per year (domestic)",
     lounge_visits_per_quarter |-> 1,
     milestone_benefits |-> << >>,
     fuel_surcharge_waiver |-> TRUE, card_type |-> "Regular",
     joining_fee |-> 999, welcome_benefit |-> 0,
     description |-> "Best for online shoppers with 5% cashback on online purchases"]

SBISimplyCLICK ==
    [card_name |-> "SBI SimplyCLICK", bank |-> "SBI", annual_fee |-> 499,
     fee_waiver_threshold |-> 100000, min_salary_req |-> 25000,
     base_reward_rate |-> 125,
     category_multipliers |-> Multipliers(125, 125, 250, 125),
     lounge_access |-> "None",
     lounge_visits_per_quarter |-> 0,
     milestone_benefits |-> << Milestone(IntKey(100000), 2000),
                               Milestone(IntKey(200000), 2000) >>,
     fuel_surcharge_waiver |-> TRUE, card_type |-> "Entry Level",
     joining_fee |-> 499, welcome_benefit |-> 500,
     description |-> "Perfect entry-level card for online shopping enthusiasts"]

AxisAtlas ==
    [card_name |-> "Axis Atlas", bank |-> "Axis", annual_fee |-> 5000,
     fee_waiver_threshold |-> 1500000, min_salary_req |-> 125000,
     base_reward_rate |-> 200,
     category_multipliers |-> Multipliers(500, 200, 200, 200),
     lounge_access |-> "8 international + 8 domestic per year",
     lounge_visits_per_quarter |-> 4,
     milestone_benefits |-> << Milestone(IntKey(750000), 7500),
                               Milestone(IntKey(1500000), 12500) >>,
     fuel_surcharge_waiver |-> TRUE, card_type |-> "Travel Premium",
     joining_fee |-> 5000, welcome_benefit |-> 5000,
     description |-> "Best travel card for frequent flyers with EDGE miles"]

AxisFlipkart ==
    [card_name |-> "Axis Flipkart", bank |-> "Axis", annual_fee |-> 500,
     fee_waiver_threshold |-> 0, min_salary_req |-> 15000,
     base_reward_rate |-> 150,
     category_multipliers |-> Multipliers(150, 150, 500, 150),
     lounge_access |-> "4 per year (domestic)",
     lounge_visits_per_quarter |-> 1,
     milestone_benefits |-> << >>,
     fuel_surcharge_waiver |-> TRUE, card_type |-> "Lifetime Free",
     joining_fee |-> 0, welcome_benefit |-> 0,
     description |-> "Lifetime free card with excellent Flipkart rewards"]

ICICIAmazonPay ==
    [card_name |-> "ICICI Amazon Pay", bank |-> "ICICI", annual_fee |-> 500,
     fee_waiver_threshold |-> 0, min_salary_req |-> 20000,
     base_reward_rate |-> 100,
     category_multipliers |-> Multipliers(100, 100, 500, 200),
     lounge_access |-> "None",
     lounge_visits_per_quarter |-> 0,
     milestone_benefits |-> << >>,
     fuel_surcharge_waiver |-> TRUE, card_type |-> "Co-branded",
     joining_fee |-> 0, welcome_benefit |-> 500,
     description |-> "Best for Amazon shoppers with 5% cashback for Prime members"]

ICICICoral ==
    [card_name |-> "ICICI Coral", bank |-> "ICICI", annual_fee |-> 500,
     fee_waiver_threshold |-> 150000, min_salary_req |-> 30000,
     base_reward_rate |-> 100,
     category_multipliers |-> Multipliers(100, 200, 100, 100),
     lounge_access |-> "1 per quarter (domestic)",
     lounge_visits_per_quarter |-> 1,
     milestone_benefits |-> << >>,
     fuel_surcharge_waiver |-> TRUE, card_type |-> "Entry Premium",
     joining_fee |-> 500, welcome_benefit |-> 500,
     description |-> "Good starter card with dining benefits and lounge access"]

AmexPlatinumTravel ==
    [card_name |-> "Amex Platinum Travel", bank |-> "Amex", annual_fee |-> 3500,
     fee_waiver_threshold |-> 0, min_salary_req |-> 50000,
     base_reward_rate |-> 100,
     category_multipliers |-> Multipliers(500, 100, 100, 100),
     lounge_access |-> "4 per quarter (domestic)",
     lounge_visits_per_quarter |-> 4,
     milestone_benefits |-> << Milestone(IntKey(190000), 10000),
                               Milestone(IntKey(400000), 20000) >>,
     fuel_surcharge_waiver |-> FALSE, card_type |-> "Travel",
     joining_fee |-> 3500, welcome_benefit |-> 5000,
     description |-> "Best for travelers with Amex network and milestone rewards"]

RBLShoprite ==
    [card_name |-> "RBL Shoprite", bank |-> "RBL", annual_fee |-> 0,
     fee_waiver_threshold |-> 0, min_salary_req |-> 15000,
     base_reward_rate |-> 125,
     category_multipliers |-> Multipliers(125, 125, 250, 125),
     lounge_access |-> "None",
     lounge_visits_per_quarter |-> 0,
     milestone_benefits |-> << >>,
     fuel_surcharge_waiver |-> TRUE, card_type |-> "Lifetime Free",
     joining_fee |-> 0, welcome_benefit |-> 0,
     description |-> "Completely free card with decent rewards for everyday spends"]

IndusIndTiger ==
    [card_name |-> "IndusInd Tiger", bank |-> "IndusInd", annual_fee |-> 0,
     fee_waiver_threshold |-> 0, min_salary_req |-> 20000,
     base_reward_rate |-> 175,
     category_multipliers |-> Multipliers(175, 175, 350, 175),
     lounge_access |-> "2 per quarter (domestic)",
     lounge_visits_per_quarter |-> 2,
     milestone_benefits |-> << Milestone(IntKey(50000), 500),
                               Milestone(IntKey(100000), 1000) >>,
     fuel_surcharge_waiver |-> TRUE, card_type |-> "Lifetime Free",
     joining_fee |-> 0, welcome_benefit |-> 0,
     description |-> "Great lifetime free card with lounge access and weekend rewards"]

\* The shipped catalog, in its order.
CREDIT_CARDS ==
    << HDFCInfinia, HDFCRegaliaGold, HDFCDinersBlack, SBICashback,
       SBISimplyCLICK, AxisAtlas, AxisFlipkart, ICICIAmazonPay, ICICICoral,
       AmexPlatinumTravel, RBLShoprite, IndusIndTiger >>

\* get_all_cards()
get_all_cards ==
    CREDIT_CARDS


(***************************************************************************)
(* The calculator: utils/calculator.py                                     *)
(***************************************************************************)

\* Keys of monthly_spends in insertion order (the dict built by the form).
CategoryOrder ==
    << "general", "travel", "dining", "online", "utilities" >>

Categories ==
    { CategoryOrder[i] : i \in 1..Len(CategoryOrder) }

\* Mutant of ArgAfterAnnualSpend: the amounts are multiplied in place.
ArgAfterAnnualSpendInPlace(monthly_spends) ==
    [category \in DOMAIN monthly_spends |-> monthly_spends[category] * 12]

\* The dict passed to calculate_annual_spend once it has returned: the
\* comprehension builds a new dict and leaves its argument as it was.
ArgAfterAnnualSpend(monthly_spends) ==
    monthly_spends

\* calculate_annual_spend: every monthly amount times 12, same keys.
calculate_annual_spend(monthly_spends) ==
    [category \in DOMAIN monthly_spends |-> monthly_spends[category] * 12]

RECURSIVE SumValues(_, _)
\* sum() over the values of dict d whose keys are listed in keys.
SumValues(d, keys) ==
    IF keys = << >> THEN 0
    ELSE d[Head(keys)] + SumValues(d, Tail(keys))

\* calculate_total_spend: sum(spends.values())
calculate_total_spend(spends) ==
    SumValues(spends, CategoryOrder)

\* Mutant of check_eligibility: strict comparison.
check_eligibility_strict(card, monthly_salary) ==
    monthly_salary > card.min_salary_req

\* Mutant of check_eligibility: eligible only within twice the requirement.
check_eligibility_band(card, monthly_salary) ==
    /\ monthly_salary >= card.min_salary_req
    /\ monthly_salary <= 2 * card.min_salary_req

\* check_eligibility
check_eligibility(card, monthly_salary) ==
    monthly_salary >= card.min_salary_req

\* Mutant of calculate_effective_fee: waiver only above the threshold.
calculate_effective_fee_above(card, annual_spend) ==
    IF card.fee_waiver_threshold = 0 THEN 0
    ELSE IF annual_spend > card.fee_waiver_threshold THEN 0
    ELSE card.annual_fee

\* Mutant of calculate_effective_fee: the fee is waived up to the threshold
\* and charged above it.
calculate_effective_fee_below(card, annual_spend) ==
    IF card.fee_waiver_threshold = 0 THEN 0
    ELSE IF annual_spend <= card.fee_waiver_threshold THEN 0
    ELSE card.annual_fee

\* calculate_effective_fee
calculate_effective_fee(card, annual_spend) ==
    IF card.fee_waiver_threshold = 0 THEN 0
    ELSE IF annual_spend >= card.fee_waiver_threshold THEN 0
    ELSE card.annual_fee

\* Mutant of RewardRate: a category without a multiplier earns nothing.
RewardRateZeroDefault(card, user_category) ==
    IF user_category = "general"
    THEN card.base_reward_rate
    ELSE DictGet(card.category_multipliers, user_category, 0)

\* The reward rate the loop of calculate_base_rewards applies to a category.
RewardRate(card, user_category) ==
    IF user_category = "general"
    THEN card.base_reward_rate
    ELSE DictGet(card.category_multipliers, user_category,
                 card.base_reward_rate)

RECURSIVE BaseRewardsLoop(_, _, _, _)
\* The for loop of calculate_base_rewards over annual_spends.items():
\* acc carries total_rewards and category_rewards.
BaseRewardsLoop(card, annual_spends, keys, acc) ==
    IF keys = << >> THEN acc
    ELSE LET user_category == Head(keys)
             amount        == annual_spends[user_category]
             reward_value  == amount * RewardRate(card, user_category)
         IN  BaseRewardsLoop(card, annual_spends, Tail(keys),
                 [total_rewards    |-> acc.total_rewards + reward_value,
                  category_rewards |->
                      [c \in DOMAIN acc.category_rewards \cup {user_category}
                         |-> IF c = user_category THEN reward_value
                             ELSE acc.category_rewards[c]]])

\* calculate_base_rewards: (total_rewards, category_rewards)
calculate_base_rewards(card, annual_spends) ==
    BaseRewardsLoop(card, annual_spends, CategoryOrder,
                    [total_rewards |-> 0, category_rewards |-> EmptyDict])

RECURSIVE ParseInt(_, _)
\* int(str) of a string of decimal digits, most significant digit first.
ParseInt(digits, acc) ==
    IF digits = << >> THEN acc
    ELSE ParseInt(Tail(digits), acc * 10 + Head(digits))

\* threshold_int = int(threshold) if isinstance(threshold, str) else threshold
ThresholdInt(threshold) ==
    IF threshold.is_str THEN ParseInt(threshold.digits, 0) ELSE threshold.int

\* A float formatted with ",.0f": the nearest integer, ties to even.
FormatRupees(value) ==
    LET q == value \div FloatScale
        r == value % FloatScale
    IN  IF 2 * r < FloatScale THEN q
        ELSE IF 2 * r > FloatScale THEN q + 1
        ELSE IF q % 2 = 0 THEN q ELSE q + 1

\* The module-level dict POINT_VALUATION as the calculator finds it when it
\* runs.
VARIABLE point_valuation

\* POINT_VALUATION.get(bank, 0.25)
PointValue(bank) ==
    DictGet(point_valuation, bank, DEFAULT_POINT_VALUE)

RECURSIVE MilestoneLoopFirstOnly(_, _, _, _)
\* Mutant of MilestoneLoop: leaves the loop at the first threshold met.
MilestoneLoopFirstOnly(items, point_value, annual_spend, acc) ==
    IF items = << >> THEN acc
    ELSE LET threshold_int == ThresholdInt(Head(items).threshold)
             points        == Head(items).points
             value         == points * point_value
         IN  IF annual_spend >= threshold_int
             THEN [total_milestone_value |-> acc.total_milestone_value + value,
                   achieved_milestones   |->
                       Append(acc.achieved_milestones,
                              << threshold_int, points, FormatRupees(value) >>)]
             ELSE MilestoneLoopFirstOnly(Tail(items), point_value,
                                         annual_spend, acc)

RECURSIVE MilestoneLoopBelow(_, _, _, _)
\* Mutant of MilestoneLoop: the comparison is turned round.
MilestoneLoopBelow(items, point_value, annual_spend, acc) ==
    IF items = << >> THEN acc
    ELSE LET threshold_int == ThresholdInt(Head(items).threshold)
             points        == Head(items).points
             value         == points * point_value
         IN  MilestoneLoopBelow(Tail(items), point_value, annual_spend,
                 IF annual_spend <= threshold_int
                 THEN [total_milestone_value |->
                           acc.total_milestone_value + value,
                       achieved_milestones   |->
                           Append(acc.achieved_milestones,
                                  << threshold_int, points,
                                     FormatRupees(value) >>)]
                 ELSE acc)

RECURSIVE MilestoneLoop(_, _, _, _)
\* The for loop of calculate_milestone_benefits over
\* card["milestone_benefits"].items(); an achieved milestone is kept as
\* the three numbers its description prints.
MilestoneLoop(items, point_value, annual_spend, acc) ==
    IF items = << >> THEN acc
    ELSE LET threshold_int == ThresholdInt(Head(items).threshold)
             points        == Head(items).points
             value         == points * point_value
         IN  MilestoneLoop(Tail(items), point_value, annual_spend,
                 IF annual_spend >= threshold_int
                 THEN [total_milestone_value |->
                           acc.total_milestone_value + value,
                       achieved_milestones   |->
                           Append(acc.achieved_milestones,
                                  << threshold_int, points,
                                     FormatRupees(value) >>)]
                 ELSE acc)

\* calculate_milestone_benefits: (total_milestone_value, achieved_milestones)
calculate_milestone_benefits(card, annual_spend) ==
    MilestoneLoop(card.milestone_benefits, PointValue(card.bank), annual_spend,
                  [total_milestone_value |-> 0, achieved_milestones |-> << >>])

\* LOUNGE_VALUE_PER_VISIT
LOUNGE_VALUE_PER_VISIT ==
    1500

\* Lounge visits per quarter from which access counts as unlimited.
UNLIMITED_VISITS ==
    999

\* Mutant of calculate_lounge_value: the quarterly visits are not annualised.
calculate_lounge_value_quarterly(card, needs_lounge) ==
    IF ~needs_lounge THEN 0
    ELSE LET quarterly_visits == card.lounge_visits_per_quarter
         IN  IF quarterly_visits >= UNLIMITED_VISITS
             THEN ToFloat(12 * LOUNGE_VALUE_PER_VISIT)
             ELSE ToFloat(quarterly_visits * LOUNGE_VALUE_PER_VISIT)

\* Mutant of calculate_lounge_value: unlimited access counted as 4 visits a
\* year.
calculate_lounge_value_four(card, needs_lounge) ==
    IF ~needs_lounge THEN 0
    ELSE LET quarterly_visits == card.lounge_visits_per_quarter
         IN  IF quarterly_visits >= UNLIMITED_VISITS
             THEN ToFloat(4 * LOUNGE_VALUE_PER_VISIT)
             ELSE ToFloat((quarterly_visits * 4) * LOUNGE_VALUE_PER_VISIT)

\* calculate_lounge_value
calculate_lounge_value(card, needs_lounge) ==
    IF ~needs_lounge THEN 0
    ELSE LET quarterly_visits == card.lounge_visits_per_quarter
         IN  IF quarterly_visits >= UNLIMITED_VISITS
             THEN ToFloat(12 * LOUNGE_VALUE_PER_VISIT)
             ELSE ToFloat((quarterly_visits * 4) * LOUNGE_VALUE_PER_VISIT)


\* Mutant of WelcomeValue: the welcome benefit converted as if it were points.
WelcomeValuePoints(card, is_first_year) ==
    IF is_first_year
    THEN (card.welcome_benefit * PointValue(card.bank)) \div FloatScale
    ELSE 0

\* welcome_value = card["welcome_benefit"] if is_first_year else 0
WelcomeValue(card, is_first_year) ==
    IF is_first_year THEN card.welcome_benefit ELSE 0

\* effective_reward_rate, a percentage; the quotient is truncated to 1/10000.
EffectiveRewardRate(total_rewards, total_annual_spend) ==
    IF total_annual_spend > 0
    THEN (total_rewards \div total_annual_spend) * 100
    ELSE 0

\* max(category_rewards, key=category_rewards.get): the first key, in
\* insertion order, that carries the largest reward.
BestCategory(category_rewards) ==
    LET n == Len(CategoryOrder)
        v(i) == category_rewards[CategoryOrder[i]]
        best == CHOOSE i \in 1..n :
                    /\ \A j \in 1..n : v(j) <= v(i)
                    /\ \A j \in 1..(i - 1) : v(j) < v(i)
    IN  CategoryOrder[best]

\* The reasons list of calculate_net_value; each reason is kept as the tag
\* of its text and the values the text prints.
Reasons(card, category_rewards, fee_waived, achieved_milestones, lounge_value) ==
    LET best_category == BestCategory(category_rewards)
        category_part ==
            IF /\ DOMAIN category_rewards # {}
               /\ category_rewards[best_category] > 0
            THEN << << "rewards on spend",
                       DictGet(card.category_multipliers, best_category,
                               card.base_reward_rate),
                       best_category >> >>
            ELSE << >>
        fee_part ==
            IF fee_waived
            THEN << << "Fee waived", card.fee_waiver_threshold >> >>
            ELSE IF card.annual_fee = 0
            THEN << << "Lifetime free card" >> >>
            ELSE << >>
        milestone_part ==
            IF achieved_milestones # << >>
            THEN << << "milestone benefit(s) achieved",
                       Len(achieved_milestones) >> >>
            ELSE << >>
        lounge_part ==
            IF lounge_value > 0
            THEN IF card.lounge_visits_per_quarter >= UNLIMITED_VISITS
                 THEN << << "Unlimited lounge access" >> >>
                 ELSE << << "lounge visits/year",
                            card.lounge_visits_per_quarter * 4 >> >>
            ELSE << >>
    IN  category_part \o fee_part \o milestone_part \o lounge_part

\* Mutant of IneligibleResult: the fee is charged to an ineligible card.
IneligibleResultCharged(card) ==
    [card_name   |-> card.card_name,
     bank        |-> card.bank,
     is_eligible |-> FALSE,
     net_value   |-> 0 - ToFloat(card.annual_fee),
     reason      |-> << "Requires minimum salary of", card.min_salary_req >>,
     breakdown   |-> [annual_fee |-> card.annual_fee]]

\* The early return of calculate_net_value for an ineligible card.
IneligibleResult(card) ==
    [card_name   |-> card.card_name,
     bank        |-> card.bank,
     is_eligible |-> FALSE,
     net_value   |-> 0,
     reason      |-> << "Requires minimum salary of", card.min_salary_req >>,
     breakdown   |-> EmptyDict]

\* Mutant of NetValue: the fee is left out.
NetValueNoFee(gross_benefits, effective_fee) ==
    gross_benefits

\* net_value = gross_benefits - effective_fee
NetValue(gross_benefits, effective_fee) ==
    gross_benefits - ToFloat(effective_fee)

\* gross_benefits = total_rewards + milestone_value + lounge_value + welcome_value
GrossBenefits(total_rewards, milestone_value, lounge_value, welcome_value) ==
    total_rewards + milestone_value + lounge_value + ToFloat(welcome_value)

\* The computation and final return of calculate_net_value for an eligible card.
EligibleResult(card, monthly_spends, needs_lounge, is_first_year) ==
    LET annual_spends      == calculate_annual_spend(monthly_spends)
        total_annual_spend == calculate_total_spend(annual_spends)
        effective_fee      == calculate_effective_fee(card, total_annual_spend)
        fee_waived         == effective_fee = 0 /\ card.annual_fee > 0
        base               == calculate_base_rewards(card, annual_spends)
        total_rewards      == base.total_rewards
        category_rewards   == base.category_rewards
        milestone          == calculate_milestone_benefits(card,
                                                           total_annual_spend)
        milestone_value    == milestone.total_milestone_value
        achieved_milestones == milestone.achieved_milestones
        lounge_value       == calculate_lounge_value(card, needs_lounge)
        welcome_value      == WelcomeValue(card, is_first_year)
        gross_benefits     == GrossBenefits(total_rewards, milestone_value,
                                            lounge_value, welcome_value)
        net_value          == NetValue(gross_benefits, effective_fee)
        reasons            == Reasons(card, category_rewards, fee_waived,
                                      achieved_milestones, lounge_value)
    IN  [card_name   |-> card.card_name,
         bank        |-> card.bank,
         card_type   |-> card.card_type,
         is_eligible |-> TRUE,
         net_value   |-> net_value,
         effective_reward_rate |->
             EffectiveRewardRate(total_rewards, total_annual_spend),
         breakdown   |->
             [annual_fee          |-> card.annual_fee,
              effective_fee       |-> effective_fee,
              fee_waived          |-> fee_waived,
              total_rewards       |-> total_rewards,
              category_rewards    |-> category_rewards,
              milestone_value     |-> milestone_value,
              achieved_milestones |-> achieved_milestones,
              lounge_value        |-> lounge_value,
              welcome_value       |-> welcome_value,
              gross_benefits      |-> gross_benefits,
              total_annual_spend  |-> total_annual_spend],
         why_recommended |->
             IF reasons # << >> THEN reasons
             ELSE << << "Basic rewards on all spends" >> >>,
         lounge_access |-> card.lounge_access,
         description   |-> card.description]

\* calculate_net_value
calculate_net_value(card, monthly_salary, monthly_spends, needs_lounge, is_first_year) ==
    IF ~check_eligibility(card, monthly_salary)
    THEN IneligibleResult(card)
    ELSE EligibleResult(card, monthly_spends, needs_lounge, is_first_year)

(***************************************************************************)
(* rank_cards                                                              *)
(***************************************************************************)

\* Mutant of ExcludedByLifetimeFree: a card counts as free when its fee is
\* always waived.
ExcludedByWaiverThreshold(card, lifetime_free_only) ==
    lifetime_free_only /\ card.fee_waiver_threshold > 0

\* if lifetime_free_only and card["annual_fee"] > 0: continue
ExcludedByLifetimeFree(card, lifetime_free_only) ==
    lifetime_free_only /\ card.annual_fee > 0

\* if needs_lounge and card["lounge_visits_per_quarter"] == 0: continue
ExcludedByLounge(card, needs_lounge) ==
    needs_lounge /\ card.lounge_visits_per_quarter = 0

RECURSIVE InsertByNetValue(_, _)
\* x put behind every entry whose net_value is at least its own.
InsertByNetValue(sorted, x) ==
    IF sorted = << >> THEN << x >>
    ELSE IF Head(sorted).net_value >= x.net_value
         THEN << Head(sorted) >> \o InsertByNetValue(Tail(sorted), x)
         ELSE << x >> \o sorted

RECURSIVE InsertBeforeEqual(_, _)
\* x put in front of every entry whose net_value is at most its own.
InsertBeforeEqual(sorted, x) ==
    IF sorted = << >> THEN << x >>
    ELSE IF Head(sorted).net_value > x.net_value
         THEN << Head(sorted) >> \o InsertBeforeEqual(Tail(sorted), x)
         ELSE << x >> \o sorted

RECURSIVE SortReversed(_, _)
\* Mutant of SortByNetValue: an ascending sort read backwards, which turns
\* the order of equal entries round.
SortReversed(results, sorted) ==
    IF results = << >> THEN sorted
    ELSE SortReversed(Tail(results), InsertBeforeEqual(sorted, Head(results)))

RECURSIVE SortByNetValue(_, _)
\* results.sort(key=lambda x: x["net_value"], reverse=True): list.sort is
\* stable, and with reverse=True equal entries keep their original order.
SortByNetValue(results, sorted) ==
    IF results = << >> THEN sorted
    ELSE SortByNetValue(Tail(results), InsertByNetValue(sorted, Head(results)))

(***************************************************************************)
(* Inputs of a ranking request.                                            *)
(***************************************************************************)

\* A card of a bank POINT_VALUATION does not list, with one multiplier only
\* and a milestone threshold written as a string.
CoopBasic ==
    [card_name |-> "Co-op Basic", bank |-> "Co-op", annual_fee |-> 300,
     fee_waiver_threshold |-> 120000, min_salary_req |-> 20000,
     base_reward_rate |-> 100,
     category_multipliers |-> [online |-> 200],
     lounge_access |-> "None",
     lounge_visits_per_quarter |-> 0,
     milestone_benefits |-> << Milestone(StrKey(<< 1, 2, 0, 0, 0, 0 >>), 1000),
                               Milestone(IntKey(60000), 400) >>,
     fuel_surcharge_waiver |-> FALSE, card_type |-> "Regular",
     joining_fee |-> 0, welcome_benefit |-> 200,
     description |-> "Card of a bank without a point valuation"]

\* The cards a request's card list is drawn from.
CardPool ==
    { RBLShoprite, IndusIndTiger, AxisFlipkart, HDFCRegaliaGold,
      HDFCInfinia, CoopBasic }

\* Card lists without repetition, at most MaxCards long, in every order.
CardLists ==
    { s \in UNION { [1..n -> CardPool] : n \in 0..MaxCards } :
        \A i, j \in DOMAIN s : i # j => s[i] # s[j] }

\* Monthly salaries: the requirements of IndusInd Tiger and Co-op Basic, of
\* HDFC Regalia Gold and of HDFC Infinia.
Salaries ==
    { 20000, 60000, 300000 }

\* Monthly salaries of the form's examples.
FormSalaries ==
    { 30000, 75000, 500000 }

Spends(general, travel, dining, online, utilities) ==
    [general |-> general, travel |-> travel, dining |-> dining,
     online |-> online, utilities |-> utilities]

\* Monthly spends a caller passes without validating them.
NegativeSpendProfiles ==
    { Spends(0 - 1000, 0, 0, 0, 0),
      Spends(5000, 0 - 2000, 0, 1000, 0),
      Spends(1000, 0, 0, 0 - 3000, 500) }

\* Amounts by which one monthly spend is raised.
SpendIncrements ==
    { 1000, 20000 }

\* Monthly spends: none; Rs 120000, 300000, 480000 and 1200000 a year.
SpendProfiles ==
    { Spends(0, 0, 0, 0, 0),
      Spends(4000, 1000, 2000, 2000, 1000),
      Spends(10000, 0, 5000, 10000, 0),
      Spends(15000, 5000, 5000, 10000, 5000),
      Spends(60000, 20000, 10000, 10000, 0) }

(***************************************************************************)
(* State: the arguments of rank_cards and its locals.                      *)
(***************************************************************************)
VARIABLES
    cards,              \* the card list
    monthly_salary,
    monthly_spends,
    needs_lounge,
    lifetime_free_only,
    is_first_year,
    pc,                 \* "loop" inside the for loop, "done" after return
    idx,                \* position of the for loop in cards
    analysis,           \* << >> while unbound, else << the last analysis >>
    results,            \* the results list
    returned,           \* the lists earlier calls with these arguments returned
    other               \* a second request served over the same card list

vars ==
    << cards, monthly_salary, monthly_spends, needs_lounge,
       lifetime_free_only, is_first_year, pc, idx, analysis, results,
       point_valuation, returned, other >>

\* What no step of the first request touches besides its own locals.
rest ==
    << point_valuation, returned, other >>

args ==
    << cards, monthly_salary, monthly_spends, needs_lounge,
       lifetime_free_only, is_first_year >>

\* Mutant of EntryResults: the list of the previous call is used again.
EntryResultsKept(previous) ==
    previous

\* results = [] at the entry of rank_cards, whatever an earlier call left.
EntryResults(previous) ==
    << >>

\* No second request.
NoRequest ==
    [pc |-> "none"]

\* Entry of rank_cards with any flags: results = []
EntryLocals ==
    /\ needs_lounge \in BOOLEAN
    /\ lifetime_free_only \in BOOLEAN
    /\ is_first_year \in BOOLEAN
    /\ pc = "loop"
    /\ idx = 1
    /\ analysis = << >>
    /\ results = EntryResults(<< >>)
    /\ point_valuation = POINT_VALUATION
    /\ returned = << >>

\* Entry of rank_cards with spends the form accepts, as the only request.
Entry ==
    /\ monthly_spends \in SpendProfiles
    /\ EntryLocals
    /\ other = NoRequest

\* rank_cards called with any card list.
Init ==
    /\ cards \in CardLists
    /\ monthly_salary \in Salaries
    /\ Entry

\* rank_cards called by the form with get_all_cards().
InitShipped ==
    /\ cards = get_all_cards
    /\ monthly_salary \in FormSalaries
    /\ Entry

\* rank_cards called directly, with spends nobody validated.
InitUnvalidated ==
    /\ cards \in CardLists
    /\ monthly_salary \in Salaries
    /\ monthly_spends \in NegativeSpendProfiles
    /\ EntryLocals
    /\ other = NoRequest

\* One pass of the for loop that ends in a continue.
SkipCard ==
    /\ pc = "loop"
    /\ idx <= Len(cards)
    /\ \/ ExcludedByLifetimeFree(cards[idx], lifetime_free_only)
       \/ ExcludedByLounge(cards[idx], needs_lounge)
    /\ idx' = idx + 1
    /\ UNCHANGED << args, pc, analysis, results, rest >>

\* One pass of the for loop that reaches calculate_net_value.
AnalyseCard ==
    /\ pc = "loop"
    /\ idx <= Len(cards)
    /\ ~ExcludedByLifetimeFree(cards[idx], lifetime_free_only)
    /\ ~ExcludedByLounge(cards[idx], needs_lounge)
    /\ LET a == calculate_net_value(cards[idx], monthly_salary,
                                    monthly_spends, needs_lounge,
                                    is_first_year)
       IN  /\ analysis' = << a >>
           /\ results' = IF a.is_eligible THEN Append(results, a)
                         ELSE results
           /\ monthly_spends' = IF a.is_eligible
                                THEN ArgAfterAnnualSpend(monthly_spends)
                                ELSE monthly_spends
    /\ idx' = idx + 1
    /\ UNCHANGED << cards, monthly_salary, needs_lounge, lifetime_free_only,
                    is_first_year, pc, rest >>

\* The loop is over: sort and return.
SortAndReturn ==
    /\ pc = "loop"
    /\ idx > Len(cards)
    /\ results' = SortByNetValue(results, << >>)
    /\ pc' = "done"
    /\ UNCHANGED << args, idx, analysis, rest >>

Next ==
    \/ SkipCard
    \/ AnalyseCard
    \/ SortAndReturn

(***************************************************************************)
(* Two requests over one card list, the first of them made twice.          *)
(***************************************************************************)

RECURSIVE RankLoop(_, _, _, _, _, _, _)
\* The for loop of rank_cards run from card i to the end without
\* interruption: the results list it leaves.
RankLoop(card_list, i, salary, spends, lounge, free_only, first_year) ==
    IF i > Len(card_list) THEN << >>
    ELSE IF \/ ExcludedByLifetimeFree(card_list[i], free_only)
            \/ ExcludedByLounge(card_list[i], lounge)
         THEN RankLoop(card_list, i + 1, salary, spends, lounge, free_only,
                       first_year)
         ELSE LET a == calculate_net_value(card_list[i], salary, spends,
                                           lounge, first_year)
                  tail == RankLoop(card_list, i + 1, salary, spends, lounge,
                                   free_only, first_year)
              IN  IF a.is_eligible THEN << a >> \o tail ELSE tail

\* rank_cards run alone, from entry to return.
rank_cards(card_list, salary, spends, lounge, free_only, first_year) ==
    SortByNetValue(RankLoop(card_list, 1, salary, spends, lounge, free_only,
                            first_year), << >>)

\* The cards of the pool in one order; a server's card list is a prefix.
ServerOrder ==
    << HDFCRegaliaGold, IndusIndTiger, CoopBasic, AxisFlipkart, RBLShoprite,
       HDFCInfinia >>

ServerCardLists ==
    { SubSeq(ServerOrder, 1, n) : n \in 1..MaxCards }

\* A request at the entry of rank_cards.
Request(salary, spends, lounge, free_only, first_year) ==
    [monthly_salary |-> salary, monthly_spends |-> spends,
     needs_lounge |-> lounge, lifetime_free_only |-> free_only,
     is_first_year |-> first_year,
     pc |-> "loop", idx |-> 1, analysis |-> << >>,
     results |-> EntryResults(<< >>)]

\* The requests of the second user.
OtherRequests ==
    { Request(60000, Spends(15000, 5000, 5000, 10000, 5000), TRUE, FALSE, TRUE),
      Request(300000, Spends(0, 0, 0, 0, 0), FALSE, TRUE, FALSE),
      Request(20000, Spends(4000, 1000, 2000, 2000, 1000), FALSE, FALSE, TRUE) }

\* Two requests enter rank_cards with the same card list.
InitServer ==
    /\ cards \in ServerCardLists
    /\ monthly_salary \in Salaries
    /\ monthly_spends \in SpendProfiles
    /\ EntryLocals
    /\ other \in OtherRequests

\* The first request is made again with the arguments it was made with.
CallAgain ==
    /\ pc = "done"
    /\ returned = << >>
    /\ returned' = Append(returned, results)
    /\ results' = EntryResults(results)
    /\ analysis' = << >>
    /\ idx' = 1
    /\ pc' = "loop"
    /\ UNCHANGED << args, point_valuation, other >>

\* The second request: one pass of the for loop that ends in a continue.
OtherSkipCard ==
    /\ other.pc = "loop"
    /\ other.idx <= Len(cards)
    /\ \/ ExcludedByLifetimeFree(cards[other.idx], other.lifetime_free_only)
       \/ ExcludedByLounge(cards[other.idx], other.needs_lounge)
    /\ other' = [other EXCEPT !.idx = @ + 1]
    /\ UNCHANGED << args, pc, idx, analysis, results, point_valuation,
                    returned >>

\* The second request: one pass that reaches calculate_net_value.
OtherAnalyseCard ==
    /\ other.pc = "loop"
    /\ other.idx <= Len(cards)
    /\ ~ExcludedByLifetimeFree(cards[other.idx], other.lifetime_free_only)
    /\ ~ExcludedByLounge(cards[other.idx], other.needs_lounge)
    /\ LET a == calculate_net_value(cards[other.idx], other.monthly_salary,
                                    other.monthly_spends, other.needs_lounge,
                                    other.is_first_year)
       IN  other' = [other EXCEPT
                        !.analysis = << a >>,
                        !.results = IF a.is_eligible THEN Append(@, a) ELSE @,
                        !.monthly_spends = IF a.is_eligible
                                           THEN ArgAfterAnnualSpend(@)
                                           ELSE @,
                        !.idx = @ + 1]
    /\ UNCHANGED << args, pc, idx, analysis, results, point_valuation,
                    returned >>

\* The second request: sort and return.
OtherSortAndReturn ==
    /\ other.pc = "loop"
    /\ other.idx > Len(cards)
    /\ other' = [other EXCEPT !.results = SortByNetValue(@, << >>),
                              !.pc = "done"]
    /\ UNCHANGED << args, pc, idx, analysis, results, point_valuation,
                    returned >>

NextServer ==
    \/ SkipCard
    \/ AnalyseCard
    \/ SortAndReturn
    \/ CallAgain
    \/ OtherSkipCard
    \/ OtherAnalyseCard
    \/ OtherSortAndReturn

Spec ==
    Init /\ [][Next]_vars

SpecUnvalidated ==
    InitUnvalidated /\ [][Next]_vars

SpecServer ==
    InitServer /\ [][NextServer]_vars

SpecShipped ==
    InitShipped /\ [][Next]_vars


(***************************************************************************)
(* Properties                                                              *)
(***************************************************************************)

\* Position in the card list of the card an analysis was made for (card
\* names are distinct within a card list).
InputPos(a) ==
    CHOOSE k \in 1..Len(cards) : cards[k].card_name = a.card_name

CardOf(a) ==
    cards[InputPos(a)]

Analysed ==
    analysis # << >>

AnalysedEligible ==
    Analysed /\ analysis[1].is_eligible

\* C1: the list rank_cards returns is in descending order of net_value, and
\* results of equal net_value stand in the order of their cards in the input.
C1_StableDescendingSort ==
    pc = "done" =>
        /\ \A i \in 1..(Len(results) - 1) :
               results[i].net_value >= results[i + 1].net_value
        /\ \A i, j \in 1..Len(results) :
               (i < j /\ results[i].net_value = results[j].net_value)
                   => InputPos(results[i]) < InputPos(results[j])

\* A returned list of three with a tie, which the sort had to reorder.
C1_Witness ==
    /\ pc = "done"
    /\ Len(results) >= 3
    /\ \E i, j \in 1..Len(results) :
           i < j /\ results[i].net_value = results[j].net_value
    /\ \E i, j \in 1..Len(results) :
           i < j /\ InputPos(results[i]) > InputPos(results[j])

\* C2: with lifetime_free_only every entry of results belongs to a card with
\* annual_fee = 0; with needs_lounge every entry belongs to a card with
\* lounge_visits_per_quarter > 0.
C2_FilterCorrectness ==
    \A i \in 1..Len(results) :
        /\ lifetime_free_only =>
               /\ CardOf(results[i]).annual_fee = 0
               /\ results[i].breakdown.annual_fee = 0
        /\ needs_lounge => CardOf(results[i]).lounge_visits_per_quarter > 0

\* Both filters on, a card kept, a card with a fee and a card without lounge
\* visits left out.
C2_Witness ==
    /\ pc = "done"
    /\ lifetime_free_only
    /\ needs_lounge
    /\ results # << >>
    /\ \E k \in 1..Len(cards) : cards[k].annual_fee > 0
    /\ \E k \in 1..Len(cards) :
           cards[k].annual_fee = 0 /\ cards[k].lounge_visits_per_quarter = 0

\* The cards that pass the active filters and the salary requirement.
Qualifies(card) ==
    /\ lifetime_free_only => card.annual_fee = 0
    /\ needs_lounge => card.lounge_visits_per_quarter > 0
    /\ monthly_salary >= card.min_salary_req

QualifyingNames ==
    { cards[k].card_name : k \in { n \in 1..Len(cards) : Qualifies(cards[n]) } }

\* C3: the returned list holds exactly one entry for every input card that
\* passes the active filters and the salary requirement, and nothing else;
\* every entry is eligible; the list is empty when no card qualifies.
C3_ExactlyTheQualifyingCards ==
    pc = "done" =>
        /\ \A i \in 1..Len(results) : results[i].is_eligible
        /\ { results[i].card_name : i \in 1..Len(results) } = QualifyingNames
        /\ Len(results) = Cardinality(QualifyingNames)
        /\ QualifyingNames = {} => results = << >>

\* A returned list with an entry, from a card list in which one card met the
\* salary requirement exactly and another passed the filters but not the
\* salary requirement.
C3_Witness ==
    /\ pc = "done"
    /\ results # << >>
    /\ \E i \in 1..Len(results) :
           CardOf(results[i]).min_salary_req = monthly_salary
    /\ \E k \in 1..Len(cards) :
           /\ ~ExcludedByLifetimeFree(cards[k], lifetime_free_only)
           /\ ~ExcludedByLounge(cards[k], needs_lounge)
           /\ monthly_salary < cards[k].min_salary_req

\* C4: an analysis is eligible iff monthly_salary >= min_salary_req, and a
\* card eligible at this salary is eligible at every higher salary.
C4_EligibilityMonotonic ==
    Analysed =>
        LET a == analysis[1]
            card == CardOf(a)
        IN  /\ a.is_eligible <=> monthly_salary >= card.min_salary_req
            /\ a.is_eligible =>
                   \A s \in Salaries \cup FormSalaries :
                       s > monthly_salary =>
                           calculate_net_value(card, s, monthly_spends,
                               needs_lounge, is_first_year).is_eligible

\* An eligible analysis at a salary well below the highest one.
C4_Witness ==
    /\ AnalysedEligible
    /\ 2 * CardOf(analysis[1]).min_salary_req < 300000
    /\ monthly_salary < 300000

BreakdownFields ==
    { "annual_fee", "effective_fee", "fee_waived", "total_rewards",
      "category_rewards", "milestone_value", "achieved_milestones",
      "lounge_value", "welcome_value", "gross_benefits",
      "total_annual_spend" }

\* C5: below the salary requirement the analysis is ineligible with
\* net_value 0, an empty breakdown and a reason citing the required salary,
\* whatever the spends and flags; an eligible analysis carries all eleven
\* breakdown fields.
C5_IneligibleResultShape ==
    Analysed =>
        LET a == analysis[1]
            card == CardOf(a)
        IN  /\ monthly_salary < card.min_salary_req =>
                   /\ a.is_eligible = FALSE
                   /\ a.net_value = 0
                   /\ DOMAIN a.breakdown = {}
                   /\ a.reason = << "Requires minimum salary of",
                                    card.min_salary_req >>
            /\ a.is_eligible = TRUE => DOMAIN a.breakdown = BreakdownFields

\* An ineligible analysis of a card with a fee, made with spends, lounge
\* and first-year benefits all asked for.
C5_Witness ==
    /\ Analysed
    /\ ~analysis[1].is_eligible
    /\ CardOf(analysis[1]).annual_fee > 0
    /\ monthly_spends.general > 0
    /\ needs_lounge
    /\ is_first_year

ClaimedPointValue(bank) ==
    IF bank \in DOMAIN POINT_VALUATION THEN POINT_VALUATION[bank] ELSE 2500

\* The milestones of a card whose threshold the spend reaches.
MetMilestones(card, spend) ==
    { i \in 1..Len(card.milestone_benefits) :
        spend >= ThresholdInt(card.milestone_benefits[i].threshold) }

RECURSIVE SumOfPoints(_, _)
SumOfPoints(card, S) ==
    IF S = {} THEN 0
    ELSE LET i == CHOOSE i \in S : TRUE
         IN  card.milestone_benefits[i].points + SumOfPoints(card, S \ {i})

\* 12 times the sum of the five monthly spends.
AnnualTotal(spends) ==
    12 * (spends.general + spends.travel + spends.dining + spends.online
          + spends.utilities)

\* C7: milestone_value is the sum of points times the bank's point value
\* over every threshold the spend reaches, achieved_milestones has one entry
\* per such threshold, and milestone_value does not fall as the spend grows.
C7_MilestoneIndependence ==
    AnalysedEligible =>
        LET b == analysis[1].breakdown
            card == CardOf(analysis[1])
            met == MetMilestones(card, AnnualTotal(monthly_spends))
        IN  /\ b.milestone_value
                   = SumOfPoints(card, met) * ClaimedPointValue(card.bank)
            /\ Len(b.achieved_milestones) = Cardinality(met)
            /\ \A sp \in SpendProfiles :
                   AnnualTotal(sp) >= AnnualTotal(monthly_spends) =>
                       calculate_milestone_benefits(card, AnnualTotal(sp))
                           .total_milestone_value >= b.milestone_value

\* Two milestones met at once on a card of a bank without a point valuation.
C7_Witness ==
    /\ AnalysedEligible
    /\ Len(analysis[1].breakdown.achieved_milestones) >= 2
    /\ analysis[1].bank \notin DOMAIN POINT_VALUATION

\* C8: gross_benefits is the sum of the four benefits, net_value is
\* gross_benefits less effective_fee, and welcome_value is the card's
\* welcome_benefit in the first year and 0 otherwise.
C8_NetValueComposition ==
    AnalysedEligible =>
        LET a == analysis[1]
            b == a.breakdown
            card == CardOf(a)
        IN  /\ b.gross_benefits = b.total_rewards + b.milestone_value
                                  + b.lounge_value + ToFloat(b.welcome_value)
            /\ a.net_value = b.gross_benefits - ToFloat(b.effective_fee)
            /\ b.welcome_value
                   = IF is_first_year THEN card.welcome_benefit ELSE 0

\* A first-year analysis with a welcome benefit, a fee to pay, and every
\* other benefit present.
C8_Witness ==
    /\ AnalysedEligible
    /\ is_first_year
    /\ analysis[1].breakdown.welcome_value > 0
    /\ analysis[1].breakdown.effective_fee > 0
    /\ analysis[1].breakdown.total_rewards > 0
    /\ analysis[1].breakdown.lounge_value > 0

\* C9: with all five monthly spends 0, an eligible analysis has
\* total_annual_spend, effective_reward_rate, total_rewards and
\* milestone_value all 0, and net_value = welcome_value - effective_fee
\* + lounge_value, where lounge_value is 0 unless needs_lounge.
C9_ZeroSpend ==
    ( AnalysedEligible /\ \A c \in Categories : monthly_spends[c] = 0 ) =>
        LET a == analysis[1]
            b == a.breakdown
        IN  /\ b.total_annual_spend = 0
            /\ a.effective_reward_rate = 0
            /\ b.total_rewards = 0
            /\ b.milestone_value = 0
            /\ a.net_value = ToFloat(b.welcome_value)
                             - ToFloat(b.effective_fee) + b.lounge_value
            /\ ~needs_lounge => b.lounge_value = 0

\* A zero-spend analysis of a card with milestones, a fee, a welcome benefit
\* and lounge visits, with lounge access asked for.
C9_Witness ==
    /\ AnalysedEligible
    /\ \A c \in Categories : monthly_spends[c] = 0
    /\ needs_lounge
    /\ is_first_year
    /\ CardOf(analysis[1]).milestone_benefits # << >>
    /\ analysis[1].breakdown.effective_fee > 0
    /\ analysis[1].breakdown.welcome_value > 0
    /\ analysis[1].breakdown.lounge_value > 0

\* C10: ranking the shipped catalog at a salary of 30000 with
\* lifetime_free_only (lounge not required) returns only cards with
\* annual_fee = 0, among them Axis Flipkart, RBL Shoprite and IndusInd Tiger.
C10_LifetimeFreeScenario ==
    ( /\ pc = "done"
      /\ cards = CREDIT_CARDS
      /\ monthly_salary = 30000
      /\ lifetime_free_only
      /\ ~needs_lounge ) =>
        /\ \A i \in 1..Len(results) : results[i].breakdown.annual_fee = 0
        /\ { "Axis Flipkart", "RBL Shoprite", "IndusInd Tiger" }
               \subseteq { results[i].card_name : i \in 1..Len(results) }


\* C11: a second call of rank_cards with the arguments of the first returns
\* the list the first call returned, entry for entry, whatever the first
\* call and a second request left behind.
C11_RankingDeterminism ==
    ( pc = "done" /\ returned # << >> ) => results = returned[1]

\* The second call has returned two or more cards, and the second request
\* has returned a different list.
C11_Witness ==
    /\ pc = "done"
    /\ returned # << >>
    /\ Len(results) >= 2
    /\ other.pc = "done"
    /\ other.results # << >>
    /\ other.results # results

\* Every request that has returned holds the list rank_cards returns for its
\* arguments when it runs alone.
ReturnsAsAlone ==
    /\ pc = "done" =>
           results = rank_cards(cards, monthly_salary, monthly_spends,
                                needs_lounge, lifetime_free_only,
                                is_first_year)
    /\ other.pc = "done" =>
           other.results = rank_cards(cards, other.monthly_salary,
                                      other.monthly_spends,
                                      other.needs_lounge,
                                      other.lifetime_free_only,
                                      other.is_first_year)

\* C12: no step of a ranking request changes the card list or a card
\* record, POINT_VALUATION or a caller's monthly_spends, and under every
\* interleaving of two requests over one card list each request returns
\* what it returns when run alone.
C12_SideEffectFree ==
    /\ [][ /\ cards' = cards
           /\ point_valuation' = point_valuation
           /\ monthly_spends' = monthly_spends
           /\ other'.monthly_spends = other.monthly_spends ]_vars
    /\ []ReturnsAsAlone

\* The first request has returned cards while the second, with other
\* arguments, is in the middle of its loop with a card already analysed.
C12_Witness ==
    /\ pc = "done"
    /\ results # << >>
    /\ other.pc = "loop"
    /\ other.idx > 1
    /\ other.idx <= Len(cards)
    /\ other.results # << >>
    /\ other.monthly_spends # monthly_spends

\* C13: when a monthly spend is negative, no result is returned whose
\* total_annual_spend is negative or whose category reward comes from a
\* negative spend.
C13_NoNegativeSpend ==
    AnalysedEligible =>
        LET b == analysis[1].breakdown
        IN  /\ b.total_annual_spend >= 0
            /\ \A c \in Categories : b.category_rewards[c] >= 0

\* The rate the claim gives a category on a card.
ClaimedRate(card, c) ==
    IF c = "general" THEN card.base_reward_rate
    ELSE IF c \in DOMAIN card.category_multipliers
         THEN card.category_multipliers[c]
         ELSE card.base_reward_rate

\* C14: every category reward is 12 times the monthly spend times the
\* category's rate: base_reward_rate for general, the card's multiplier for
\* another category when it has one and base_reward_rate when it has none;
\* total_rewards is the sum of the five rewards and is not negative.
C14_CategoryRewards ==
    AnalysedEligible =>
        LET b == analysis[1].breakdown
            card == CardOf(analysis[1])
            r == b.category_rewards
        IN  /\ DOMAIN r = Categories
            /\ \A c \in Categories :
                   r[c] = (12 * monthly_spends[c]) * ClaimedRate(card, c)
            /\ b.total_rewards = r["general"] + r["travel"] + r["dining"]
                                 + r["online"] + r["utilities"]
            /\ b.total_rewards >= 0

\* A card without travel and dining multipliers analysed with travel and
\* dining spends.
C14_Witness ==
    /\ AnalysedEligible
    /\ "travel" \notin DOMAIN CardOf(analysis[1]).category_multipliers
    /\ "online" \in DOMAIN CardOf(analysis[1]).category_multipliers
    /\ monthly_spends.travel > 0
    /\ monthly_spends.online > 0
    /\ analysis[1].breakdown.category_rewards["travel"] > 0

\* The lounge value the claim gives a card.
ClaimedLoungeValue(card, lounge) ==
    IF ~lounge THEN 0
    ELSE IF card.lounge_visits_per_quarter >= 999 THEN ToFloat(12 * 1500)
    ELSE ToFloat(card.lounge_visits_per_quarter * 4 * 1500)

\* C15: lounge_value is 0 without needs_lounge; with it, 18000 for a card
\* with 999 or more visits a quarter and visits x 4 x 1500 for any other.
C15_LoungeValue ==
    /\ AnalysedEligible =>
           analysis[1].breakdown.lounge_value
               = ClaimedLoungeValue(CardOf(analysis[1]), needs_lounge)
    /\ \A k \in 1..Len(cards) :
           calculate_lounge_value(cards[k], needs_lounge)
               = ClaimedLoungeValue(cards[k], needs_lounge)

\* Lounge access asked for, an unlimited card analysed, in a card list that
\* also holds a card with a finite number of visits and one with none.
C15_Witness ==
    /\ AnalysedEligible
    /\ needs_lounge
    /\ CardOf(analysis[1]).lounge_visits_per_quarter >= 999
    /\ \E k \in 1..Len(cards) :
           cards[k].lounge_visits_per_quarter \in 1..998
    /\ \E k \in 1..Len(cards) : cards[k].lounge_visits_per_quarter = 0

\* C16: fee_waived is true exactly when effective_fee = 0 and annual_fee > 0;
\* a card with annual_fee 0 is never reported as waived; and fee_waived
\* implies fee_waiver_threshold > 0 and total_annual_spend >= the threshold.
C16_FeeWaivedMeansThresholdMet ==
    AnalysedEligible =>
        LET b == analysis[1].breakdown
            card == CardOf(analysis[1])
        IN  /\ b.fee_waived <=> (b.effective_fee = 0 /\ b.annual_fee > 0)
            /\ card.annual_fee = 0 => ~b.fee_waived
            /\ b.fee_waived =>
                   /\ card.fee_waiver_threshold > 0
                   /\ b.total_annual_spend >= card.fee_waiver_threshold

\* Lounge visits per quarter of the card of a result.
VisitsOf(r) ==
    CardOf(r).lounge_visits_per_quarter

\* C17 as stated: with needs_lounge, among the returned results a card with
\* more lounge visits per quarter never has the smaller lounge_value.
C17_LoungeValueMonotonic ==
    ( pc = "done" /\ needs_lounge ) =>
        \A i, j \in 1..Len(results) :
            VisitsOf(results[i]) <= VisitsOf(results[j]) =>
                results[i].breakdown.lounge_value
                    <= results[j].breakdown.lounge_value

\* C17 amended: with needs_lounge, lounge_value does not fall as the visits
\* per quarter grow among cards with fewer than 999 visits, and a card with
\* unlimited access is credited at least as much as any card with at most 3
\* visits per quarter.
C17_LoungeValueMonotonicFinite ==
    ( pc = "done" /\ needs_lounge ) =>
        \A i, j \in 1..Len(results) :
            /\ ( /\ VisitsOf(results[i]) <= VisitsOf(results[j])
                 /\ VisitsOf(results[j]) < 999 )
                   => results[i].breakdown.lounge_value
                          <= results[j].breakdown.lounge_value
            /\ ( VisitsOf(results[i]) <= 3 /\ VisitsOf(results[j]) >= 999 )
                   => results[i].breakdown.lounge_value
                          <= results[j].breakdown.lounge_value

\* A ranking with lounge access that returns an unlimited card, a card with
\* 4 visits per quarter and a card with 2.
C17_Witness ==
    /\ pc = "done"
    /\ needs_lounge
    /\ \E i \in 1..Len(results) : VisitsOf(results[i]) >= 999
    /\ \E i \in 1..Len(results) : VisitsOf(results[i]) = 4
    /\ \E i \in 1..Len(results) : VisitsOf(results[i]) = 2

\* C18: raising one category's monthly spend, everything else unchanged,
\* never lowers the net_value of an eligible card.
C18_NetValueMonotonicInSpend ==
    AnalysedEligible =>
        \A c \in Categories : \A d \in SpendIncrements :
            calculate_net_value(CardOf(analysis[1]), monthly_salary,
                [monthly_spends EXCEPT ![c] = @ + d], needs_lounge,
                is_first_year).net_value >= analysis[1].net_value

\* A card with a fee analysed at a spend equal to its waiver threshold, so
\* that any raise crosses it.
C18_Witness ==
    /\ AnalysedEligible
    /\ analysis[1].breakdown.annual_fee > 0
    /\ analysis[1].breakdown.total_annual_spend
           = CardOf(analysis[1]).fee_waiver_threshold
    /\ CardOf(analysis[1]).milestone_benefits # << >>

====
